---- MODULE Spec2Model ----
(***************************************************************************)
(* State-machine model of the GA4 dashboard: the credential resolution and *)
(* report fetch of GA4Client (ga4_client.py), the two Streamlit            *)
(* memoizations and the render pass of main() (app.py).                    *)
(*                                                                         *)
(* Text is modelled as a sequence of one-character strings, so that        *)
(* formatting and parsing are computed and not assumed.                    *)
(***************************************************************************)
EXTENDS Integers, Sequences, FiniteSets, TLC

\* ------------------------------------------------------------------ bounds
\* The clock runs from 0 to MaxTicks * TickLen seconds.
MaxTicks == 2
\* Number of user interactions (widget changes) after the first script run.
MaxPasses == 3
\* Day of the year 2024 that datetime.now() falls on (32 = 1 February).
TodayOrdinal == 32
\* Largest number of rows of a raw response given to the normalizer on its own.
MaxRows == 2

\* -------------------------------------------------------- program constants
\* ttl of st.cache_resource and of st.cache_data, in seconds
TTL == 300
\* config.DEFAULT_DATE_RANGE, in days
DEFAULT_DATE_RANGE == 30
\* config.CREDENTIALS_PATH
CREDENTIALS_PATH == "credentials.json"

TickLen == TTL \div 2

\* Python's None, as a text no formatted date equals.
None == <<"None">>

\* --------------------------------------------------------------- calendar
Max(a, b) == IF a >= b THEN a ELSE b

DigitChars == <<"0", "1", "2", "3", "4", "5", "6", "7", "8", "9">>
IsDigit(c) == \E i \in 1..10 : DigitChars[i] = c
DigitVal(c) == (CHOOSE i \in 1..10 : DigitChars[i] = c) - 1

\* Days of the months of the year 2024, the year the model's dates lie in.
MonthDays == <<31, 29, 31, 30, 31, 30, 31, 31, 30, 31, 30, 31>>

RECURSIVE DaysBefore(_)
\* Number of days of the year before the first day of month m.
DaysBefore(m) == IF m <= 1 THEN 0 ELSE DaysBefore(m - 1) + MonthDays[m - 1]

\* datetime.date of the day with ordinal o (day of the year).
DateOf(o) ==
    LET m == CHOOSE k \in 1..12 : DaysBefore(k) < o /\ o <= DaysBefore(k) + MonthDays[k]
    IN  [year |-> 2024, month |-> m, day |-> o - DaysBefore(m)]

\* n as w zero-padded decimal digits.
RECURSIVE Pad(_, _)
Pad(n, w) == IF w = 0 THEN <<>> ELSE Pad(n \div 10, w - 1) \o <<DigitChars[(n % 10) + 1]>>

\* date.strftime("%Y-%m-%d")
Strftime(d) == Pad(d.year, 4) \o <<"-">> \o Pad(d.month, 2) \o <<"-">> \o Pad(d.day, 2)

\* The compact form the remote service sends in a 'date' dimension.
CompactDate(d) == Pad(d.year, 4) \o Pad(d.month, 2) \o Pad(d.day, 2)

RECURSIVE NumVal(_)
\* Value of a sequence of digit characters.
NumVal(s) == IF s = <<>> THEN 0 ELSE NumVal(SubSeq(s, 1, Len(s) - 1)) * 10 + DigitVal(s[Len(s)])

AllDigits(s) == \A i \in 1..Len(s) : IsDigit(s[i])

\* Lexicographic order of two texts of digits and dashes of the same layout:
\* for "%Y-%m-%d" texts it is the order of the dates.
RECURSIVE TextLeq(_, _)
TextLeq(a, b) ==
    IF a = <<>> THEN TRUE
    ELSE IF b = <<>> THEN FALSE
    ELSE IF a[1] = b[1] THEN TextLeq(Tail(a), Tail(b))
    ELSE IF IsDigit(a[1]) /\ IsDigit(b[1]) THEN DigitVal(a[1]) < DigitVal(b[1])
    ELSE IsDigit(b[1])

\* ------------------------------------------------------------- normalizer
\* A cell of a DataFrame: a tagged value.
StrCell(s) == [t |-> "str", v |-> s]
IntCell(n) == [t |-> "int", v |-> <<n>>]
DateCell(d) == [t |-> "date", v |-> <<d.year, d.month, d.day>>]
NaN == [t |-> "nan", v |-> <<>>]

RECURSIVE Strip10(_, _)
\* A decimal number m / 10^k without trailing zeros of the fraction.
Strip10(m, k) == IF k > 0 /\ m % 10 = 0 THEN Strip10(m \div 10, k - 1) ELSE <<m, k>>
FloatCell(m, k) == [t |-> "float", v |-> Strip10(m, k)]

Contains(s, c) == \E i \in 1..Len(s) : s[i] = c
IndexOf(s, c) == CHOOSE i \in 1..Len(s) : s[i] = c /\ \A j \in 1..(i - 1) : s[j] # c

IsSign(c) == c = "-" \/ c = "+"
Unsigned(s) == IF s # <<>> /\ IsSign(s[1]) THEN Tail(s) ELSE s
SignOf(s) == IF s # <<>> /\ s[1] = "-" THEN -1 ELSE 1

\* int(value) succeeds: an optional sign and one or more digits.
IsIntLiteral(s) == Unsigned(s) # <<>> /\ AllDigits(Unsigned(s))
IntValue(s) == SignOf(s) * NumVal(Unsigned(s))

\* float(value) succeeds, for a value with a decimal point: an optional sign,
\* digits around one point, one digit at least.
IsFloatLiteral(s) ==
    LET u == Unsigned(s) IN
    /\ Contains(u, ".")
    /\ LET p == IndexOf(u, ".")
           a == SubSeq(u, 1, p - 1)
           b == SubSeq(u, p + 1, Len(u))
       IN  AllDigits(a) /\ AllDigits(b) /\ Len(a) + Len(b) >= 1
FloatValue(s) ==
    LET u == Unsigned(s)
        p == IndexOf(u, ".")
        a == SubSeq(u, 1, p - 1)
        b == SubSeq(u, p + 1, Len(u))
    IN  FloatCell(SignOf(s) * NumVal(a \o b), Len(b))

\* float(value) if "." in value else int(value); the value itself on ValueError
CoerceMetric(value) ==
    IF Contains(value, ".")
    THEN IF IsFloatLiteral(value) THEN FloatValue(value) ELSE StrCell(value)
    ELSE IF IsIntLiteral(value) THEN IntCell(IntValue(value)) ELSE StrCell(value)

\* A Python dict: a sequence of <<key, value>> in insertion order.
DictHas(d, k) == \E i \in 1..Len(d) : d[i][1] = k
DictGet(d, k) == d[CHOOSE i \in 1..Len(d) : d[i][1] = k][2]
DictSet(d, k, v) ==
    IF DictHas(d, k)
    THEN [i \in 1..Len(d) |-> IF d[i][1] = k THEN <<k, v>> ELSE d[i]]
    ELSE Append(d, <<k, v>>)
DictKeys(d) == [i \in 1..Len(d) |-> d[i][1]]

RECURSIVE PutDimensions(_, _, _, _)
\* for i, dimension in enumerate(response.dimension_headers): row_data[...] = ...
\* An index past the row's values raises IndexError.
PutDimensions(row_data, headers, values, i) ==
    IF i > Len(headers) THEN [raised |-> FALSE, row_data |-> row_data]
    ELSE IF i > Len(values) THEN [raised |-> TRUE, row_data |-> row_data]
    ELSE PutDimensions(DictSet(row_data, headers[i], StrCell(values[i])), headers, values, i + 1)

RECURSIVE PutMetrics(_, _, _, _)
\* for i, metric in enumerate(metric_headers): row_data[metric.name] = coerced value
PutMetrics(row_data, headers, values, i) ==
    IF i > Len(headers) THEN [raised |-> FALSE, row_data |-> row_data]
    ELSE IF i > Len(values) THEN [raised |-> TRUE, row_data |-> row_data]
    ELSE PutMetrics(DictSet(row_data, headers[i], CoerceMetric(values[i])), headers, values, i + 1)

HasAttr(obj, name) == name \in DOMAIN obj

\* A loop body that fills in the metrics before the dimensions.
RowDataMetricsFirst(response, row) ==
    LET mets == PutMetrics(<<>>, IF HasAttr(response, "metric_headers")
                                 THEN response.metric_headers ELSE <<>>,
                           row.metric_values, 1)
    IN  IF mets.raised \/ ~HasAttr(response, "dimension_headers") THEN mets
        ELSE PutDimensions(mets.row_data, response.dimension_headers, row.dimension_values, 1)

\* The body of the loop over response.rows, for one row.
RowData(response, row) ==
    LET dims == IF HasAttr(response, "dimension_headers")
                THEN PutDimensions(<<>>, response.dimension_headers, row.dimension_values, 1)
                ELSE [raised |-> FALSE, row_data |-> <<>>]
        metric_headers == IF HasAttr(response, "metric_headers")
                          THEN response.metric_headers ELSE <<>>
    IN  IF dims.raised THEN dims
        ELSE PutMetrics(dims.row_data, metric_headers, row.metric_values, 1)

RECURSIVE AddColumns(_, _)
AddColumns(cols, keys) ==
    IF keys = <<>> THEN cols
    ELSE AddColumns(IF Contains(cols, Head(keys)) THEN cols ELSE Append(cols, Head(keys)),
                    Tail(keys))

RECURSIVE ColumnsOf(_, _)
\* Column labels of pd.DataFrame(data): the keys of the dicts, each where it
\* first appears.
ColumnsOf(data, cols) ==
    IF data = <<>> THEN cols
    ELSE ColumnsOf(Tail(data), AddColumns(cols, DictKeys(Head(data))))

\* pd.DataFrame(): no column, no record.
EmptyDataFrame == [columns |-> <<>>, records |-> <<>>]

\* The dtype pd.DataFrame infers for a column from its cells: "float64" for
\* numbers with a float or a missing value among them, "int64" for integers
\* alone, "object" as soon as a text is among them.
ColumnDtype(cells) ==
    IF \E i \in 1..Len(cells) : cells[i].t \notin {"int", "float", "nan"} THEN "object"
    ELSE IF \E i \in 1..Len(cells) : cells[i].t \in {"float", "nan"} THEN "float64"
    ELSE "int64"

\* A cell as stored in a column of that dtype: in a float64 column an integer
\* is stored as the float of the same value; an object column keeps the
\* Python values as they are.
CastCell(cell, dtype) ==
    IF dtype = "float64" /\ cell.t = "int" THEN FloatCell(cell.v[1], 0) ELSE cell

\* pd.DataFrame(data) of a list of dicts: one record per dict, in order, each
\* a sequence of cells aligned to the columns (NaN where a dict lacks a key),
\* every column stored in the dtype inferred for it.
DataFrame(data) ==
    LET cols == ColumnsOf(data, <<>>)
        raw == [r \in 1..Len(data) |->
                  [c \in 1..Len(cols) |->
                      IF DictHas(data[r], cols[c]) THEN DictGet(data[r], cols[c]) ELSE NaN]]
        dtypes == [c \in 1..Len(cols) |-> ColumnDtype([r \in 1..Len(data) |-> raw[r][c]])]
    IN  [columns |-> cols,
         records |-> [r \in 1..Len(data) |->
                        [c \in 1..Len(cols) |-> CastCell(raw[r][c], dtypes[c])]]]

\* df.empty
IsEmpty(df) == Len(df.columns) = 0 \/ Len(df.records) = 0

\* A compact YYYYMMDD text names a day of the calendar.
IsCompactDate(s) ==
    /\ Len(s) = 8
    /\ AllDigits(s)
    /\ NumVal(SubSeq(s, 5, 6)) \in 1..12
    /\ NumVal(SubSeq(s, 7, 8)) >= 1
    /\ NumVal(SubSeq(s, 7, 8)) <= MonthDays[NumVal(SubSeq(s, 5, 6))]
    /\ (NumVal(SubSeq(s, 5, 8)) = 229 => NumVal(SubSeq(s, 1, 4)) % 4 = 0)
ParseCompactDate(s) ==
    [year |-> NumVal(SubSeq(s, 1, 4)), month |-> NumVal(SubSeq(s, 5, 6)),
     day |-> NumVal(SubSeq(s, 7, 8))]

\* The texts pd.to_datetime reads as a missing value instead of parsing them.
NatStrings ==
    {<<"N", "a", "T">>, <<"n", "a", "t">>, <<"N", "A", "T">>,
     <<"n", "a", "n">>, <<"N", "a", "N">>, <<"N", "A", "N">>}

\* pd.to_datetime(cell, format="%Y%m%d") of one cell: a text, or an integer read
\* as its eight digits; a missing value, or a text that stands for one, gives
\* the missing date.
DateConvertible(cell) ==
    CASE cell.t = "str" -> cell.v \in NatStrings \/ IsCompactDate(cell.v)
      [] cell.t = "int" -> cell.v[1] >= 0 /\ cell.v[1] < 100000000 /\ IsCompactDate(Pad(cell.v[1], 8))
      [] cell.t = "nan" -> TRUE
      [] OTHER -> FALSE
ToDatetime(cell) ==
    CASE cell.t = "str" /\ cell.v \in NatStrings -> NaN
      [] cell.t = "str" -> DateCell(ParseCompactDate(cell.v))
      [] cell.t = "int" -> DateCell(ParseCompactDate(Pad(cell.v[1], 8)))
      [] OTHER -> cell

\* A conversion that leaves the column as it is when a value cannot be
\* converted (errors="ignore").
ConvertDateColumnLenient(df, c) ==
    IF \E r \in 1..Len(df.records) : ~DateConvertible(df.records[r][c])
    THEN [raised |-> FALSE, df |-> df]
    ELSE [raised |-> FALSE,
          df |-> [columns |-> df.columns,
                  records |-> [r \in 1..Len(df.records) |->
                                 [k \in 1..Len(df.columns) |->
                                     IF k = c THEN ToDatetime(df.records[r][k])
                                     ELSE df.records[r][k]]]]]

\* df["date"] = pd.to_datetime(df["date"], format="%Y%m%d") on column c
ConvertDateColumn(df, c) ==
    IF \E r \in 1..Len(df.records) : ~DateConvertible(df.records[r][c])
    THEN [raised |-> TRUE, df |-> EmptyDataFrame]
    ELSE [raised |-> FALSE,
          df |-> [columns |-> df.columns,
                  records |-> [r \in 1..Len(df.records) |->
                                 [k \in 1..Len(df.columns) |->
                                     IF k = c THEN ToDatetime(df.records[r][k])
                                     ELSE df.records[r][k]]]]]

\* Lines 193-199: the frame of the row dicts, its 'date' column converted.
FrameOf(data) ==
    LET df == DataFrame(data) IN
    IF Contains(df.columns, "date")
    THEN ConvertDateColumn(df, IndexOf(df.columns, "date"))
    ELSE [raised |-> FALSE, df |-> df]

\* _response_to_dataframe: [raised, df]. raised stands for the exception that
\* leaves the function (IndexError of a short row, ValueError of to_datetime).
ResponseToDataFrame(response) ==
    IF ~HasAttr(response, "rows") \/ response.rows = <<>>
    THEN [raised |-> FALSE, df |-> EmptyDataFrame]
    ELSE LET built == [r \in 1..Len(response.rows) |-> RowData(response, response.rows[r])]
         IN  IF \E r \in 1..Len(built) : built[r].raised
             THEN [raised |-> TRUE, df |-> EmptyDataFrame]
             ELSE FrameOf([r \in 1..Len(built) |-> built[r].row_data])

\* ------------------------------------------------------- remote service
\* The requests of the dashboard: RunReportRequest / RunRealtimeReportRequest.
Request(start_date, end_date, metrics, dimensions, limit, realtime) ==
    [metrics |-> metrics,
     dimensions |-> IF dimensions = None THEN <<>> ELSE dimensions,
     date_range |-> IF realtime THEN None ELSE <<start_date, end_date>>,
     limit |-> limit,
     realtime |-> realtime]

\* What the remote service does with one request: it answers with rows, with
\* no row, with a row whose date is "(other)", or the call raises.
RemoteModes(request) ==
    {"rows", "empty", "error"} \cup
    (IF Contains(request.dimensions, "date") THEN {"baddate"} ELSE {})

\* The outcomes the dashboard's runs are checked with.
DashModes(request) == RemoteModes(request) \ {"empty", "baddate"}

OtherText == <<"(", "o", "t", "h", "e", "r", ")">>

\* The answer of the remote service at time t: one value per requested
\* dimension and metric, the metric values changing with t.
RemoteRow(request, t, date_text) ==
    [dimension_values |->
        [i \in 1..Len(request.dimensions) |->
            IF request.dimensions[i] = "date" THEN date_text ELSE <<"x">>],
     metric_values |->
        [i \in 1..Len(request.metrics) |->
            IF request.metrics[i] = "bounceRate"
            THEN <<"0", ".">> \o Pad(t \div TickLen, 1)
            ELSE Pad(t \div TickLen, 1)]]

RemoteResponse(request, t, mode) ==
    LET good == RemoteRow(request, t, CompactDate(DateOf(TodayOrdinal - 1))) IN
    [dimension_headers |-> request.dimensions,
     metric_headers |-> request.metrics,
     rows |-> CASE mode = "rows" -> <<good>>
                [] mode = "baddate" -> <<good, RemoteRow(request, t, OtherText)>>
                [] OTHER -> <<>>]

\* self.client.run_report(request) / run_realtime_report(request)
RunReport(request, t, mode) ==
    [raises |-> mode = "error", response |-> RemoteResponse(request, t, mode)]

\* ------------------------------------------------------------ GA4Client
\* An except clause that lets the exception go on to the caller.
ReportHandlerReraise == [raised |-> TRUE, df |-> EmptyDataFrame, errors |-> 0]

\* The except clause of get_basic_report and get_realtime_report:
\* st.error(...) once, then return pd.DataFrame().
ReportHandler == [raised |-> FALSE, df |-> EmptyDataFrame, errors |-> 1]

\* The try block of both report methods, on the outcome of the remote call.
ReportTry(outcome) ==
    IF outcome.raises THEN [raised |-> TRUE, df |-> EmptyDataFrame]
    ELSE ResponseToDataFrame(outcome.response)

\* get_basic_report, on the outcome of its one remote call.
GetBasicReport(outcome) ==
    LET body == ReportTry(outcome) IN
    IF body.raised THEN ReportHandler
    ELSE [raised |-> FALSE, df |-> body.df, errors |-> 0]

\* get_realtime_report, on the outcome of its one remote call.
GetRealtimeReport(outcome) ==
    LET body == ReportTry(outcome) IN
    IF body.raised THEN ReportHandler
    ELSE [raised |-> FALSE, df |-> body.df, errors |-> 0]

BasicRequest(start_date, end_date, metrics, dimensions, limit) ==
    Request(start_date, end_date, metrics, dimensions, limit, FALSE)
RealtimeRequest(metrics, dimensions, limit) ==
    Request(None, None, metrics, dimensions, limit, TRUE)

\* The presets of get_top_pages, get_traffic_sources, get_geographic_data and
\* get_device_data.
TopPagesRequest(start_date, end_date, limit) ==
    BasicRequest(start_date, end_date, <<"screenPageViews", "sessions", "totalUsers">>,
                 <<"pagePath", "pageTitle">>, limit)
TrafficSourcesRequest(start_date, end_date, limit) ==
    BasicRequest(start_date, end_date, <<"sessions", "totalUsers", "conversions">>,
                 <<"sessionDefaultChannelGroup">>, limit)
GeographicRequest(start_date, end_date, limit) ==
    BasicRequest(start_date, end_date, <<"sessions", "totalUsers", "screenPageViews">>,
                 <<"country", "city">>, limit)
DeviceRequest(start_date, end_date) ==
    BasicRequest(start_date, end_date, <<"sessions", "totalUsers", "screenPageViews">>,
                 <<"deviceCategory", "browser", "operatingSystem">>, 50)

\* The request the undecorated get_cached_data sends for a data_type
\* (None for a data_type it does not know: it then returns None).
CachedDataRequest(start_date, end_date, data_type) ==
    CASE data_type = "basic" ->
            BasicRequest(start_date, end_date,
                         <<"sessions", "totalUsers", "screenPageViews", "bounceRate">>,
                         <<"date">>, 100)
      [] data_type = "pages" -> TopPagesRequest(start_date, end_date, 15)
      [] data_type = "sources" -> TrafficSourcesRequest(start_date, end_date, 10)
      [] data_type = "geographic" -> GeographicRequest(start_date, end_date, 20)
      [] data_type = "devices" -> DeviceRequest(start_date, end_date)
      [] data_type = "realtime" -> RealtimeRequest(<<"activeUsers", "screenPageViews">>, None, 50)
      [] OTHER -> None

\* The body of get_cached_data: the report method of the data_type, on the
\* outcome of its remote call.
CachedDataBody(data_type, outcome) ==
    IF data_type = "realtime" THEN GetRealtimeReport(outcome) ELSE GetBasicReport(outcome)

\* ----------------------------------------------------------- credentials
\* The secret store is "absent" (no 'ga4' section), "valid", "unserializable"
\* (json.dumps of the section raises) or "invalid" (the section is no service
\* account); the local file is "absent", "valid" or "invalid".
SecretStates == {"absent", "valid", "unserializable", "invalid"}
FileStates == {"absent", "valid", "invalid"}

\* os.path.exists(path): only the credentials file can exist.
PathExists(path, file) == path = CREDENTIALS_PATH /\ file # "absent"

\* json.dumps(st.secrets["ga4"]): the text of the section.
SecretsJson == "{ga4 section}"

\* A resolution that looks for the local file first.
ResolveCredentialsFileFirst(sec, file, credentials_path) ==
    IF PathExists(credentials_path, file)
    THEN [stop |-> FALSE, credentials |-> credentials_path, source |-> "file", errors |-> 0]
    ELSE IF sec = "absent"
         THEN [stop |-> TRUE, credentials |-> "", source |-> "none", errors |-> 1]
    ELSE IF sec = "unserializable"
         THEN [stop |-> TRUE, credentials |-> "", source |-> "secrets", errors |-> 1]
    ELSE [stop |-> FALSE, credentials |-> SecretsJson, source |-> "secrets", errors |-> 0]

\* Lines 25-47 of GA4Client.__init__: where the credentials come from.
\* stop: st.stop() was called.
ResolveCredentials(sec, file, credentials_path) ==
    IF sec # "absent"
    THEN IF sec = "unserializable"
         THEN [stop |-> TRUE, credentials |-> "", source |-> "secrets", errors |-> 1]
         ELSE [stop |-> FALSE, credentials |-> SecretsJson, source |-> "secrets", errors |-> 0]
    ELSE IF PathExists(credentials_path, file)
         THEN [stop |-> FALSE, credentials |-> credentials_path, source |-> "file", errors |-> 0]
         ELSE [stop |-> TRUE, credentials |-> "", source |-> "none", errors |-> 1]

\* Lines 49-63: the client is built from the file when the credentials text
\* is an existing path, else from the JSON text.
BuildClient(credentials, sec, file) ==
    IF PathExists(credentials, file)
    THEN [stop |-> file # "valid", builder |-> "from_service_account_json"]
    ELSE [stop |-> sec # "valid", builder |-> "from_service_account_info"]

\* GA4Client(property_id, credentials_path)
GA4ClientInit(sec, file, credentials_path) ==
    LET res == ResolveCredentials(sec, file, credentials_path) IN
    IF res.stop
    THEN [stop |-> TRUE, source |-> res.source, builder |-> "none", errors |-> res.errors]
    ELSE LET b == BuildClient(res.credentials, sec, file) IN
         [stop |-> b.stop, source |-> res.source, builder |-> b.builder,
          errors |-> IF b.stop THEN 1 ELSE 0]

\* ------------------------------------------------------------ dashboard
VARIABLES
    now,            \* the clock, in seconds
    resourceCache,  \* st.cache_resource of load_ga4_client: <<>> or <<entry>>
    dataCache,      \* st.cache_data of get_cached_data: key -> entry
    clientCount,    \* number of GA4Client objects built so far
    start_date,     \* value of the "Fecha inicio" picker (day ordinal)
    end_date,       \* value of the "Fecha fin" picker (day ordinal)
    selected,       \* value of the option menu
    button,         \* the "Actualizar Datos" button was pressed for this run
    rt_button,      \* the "Actualizar Tiempo Real" button was pressed for this run
    rt_shown,       \* the last run drew the "Actualizar Tiempo Real" button
    passes,         \* user interactions so far
    pc,             \* position of the script run of main()
    ga4_client,     \* main's local ga4_client (0: not loaded)
    todo,           \* get_cached_data calls the run has still to make
    passLookups,    \* history: the get_cached_data calls of this run, in order
    lastCall,       \* history: the get_cached_data call the run has just made
    lastLoad,       \* history: the load_ga4_client call the run has just made
    prevStop,       \* history: the latest load_ga4_client call ended in st.stop()
    lastBuilt,      \* history: the latest client built, <<>> or <<[handle, created]>>
    clearedSinceBuild, \* history: a manual refresh happened since lastBuilt
    hist,           \* history: per key, the calls since the window of the key opened
    stale,          \* history: keys cached at a manual refresh, not asked for since
    refreshTab,     \* history: the tab selected at the manual refresh that made
                    \* the keys of stale ("" when stale is empty)
    input,          \* GA4Client on its own: the input of the operation
    op,             \* GA4Client on its own: the operation applied ("" before)
    output          \* GA4Client on its own: what the operation returned

vars == <<now, resourceCache, dataCache, clientCount,
          start_date, end_date, selected, button, rt_button, rt_shown, passes,
          pc, ga4_client, todo, passLookups, lastCall, lastLoad, prevStop,
          lastBuilt, clearedSinceBuild, hist, stale, refreshTab, input, op, output>>

widgetVars == <<start_date, end_date, selected, passes>>
clientVars == <<resourceCache, clientCount, prevStop, lastBuilt>>
callVars == <<lastCall, hist>>
reportVars == <<input, op, output>>

\* The options of option_menu (the accented letters written plain), and the
\* label the last branch of main compares with: it starts with U+26A1 where
\* the option starts with a space.
OptionResumen == " Resumen"
OptionPaginas == " Paginas"
OptionGeografia == " Geografia"
OptionDispositivos == " Dispositivos"
OptionTiempoReal == " Tiempo Real"
Options == <<OptionResumen, OptionPaginas, OptionGeografia, OptionDispositivos, OptionTiempoReal>>
BranchTiempoReal == "U+26A1 Tiempo Real"

\* datetime.now().date() and the defaults of the two pickers
Today == TodayOrdinal
DefaultStart == Today - DEFAULT_DATE_RANGE
DefaultEnd == Today - 1

\* The days the user picks from.
StartChoices == {DefaultStart, Today - 2}
EndChoices == {DefaultEnd, Today}

EmptyCache == [k \in {} |-> 0]
Put(cache, k, e) == [x \in (DOMAIN cache) \cup {k} |-> IF x = k THEN e ELSE cache[x]]

\* A memoization whose key has the client handle in it.
CacheKeyWithClient(client, start, end, data_type) == <<client, start, end, data_type>>

\* @st.cache_data hashes the arguments of get_cached_data but those whose name
\* starts with an underscore: _client is no part of the key.
CacheKey(client, start, end, data_type) == <<start, end, data_type>>

\* A get_cached_data that is not memoized.
DataFreshNever(cache, key, t) == FALSE

\* An entry of st.cache_data(ttl=300) is served while younger than the ttl.
DataFresh(cache, key, t) == key \in DOMAIN cache /\ t < cache[key].created + TTL

\* An entry of st.cache_resource(ttl=300) is served while younger than the ttl.
ClientFresh(cache, t) == cache # <<>> /\ t < cache[1].created + TTL

\* A refresh that only reruns the script, and one that clears both caches.
ManualRefreshKeepsData(data, resource) == [data |-> data, resource |-> resource]
ManualRefreshAll(data, resource) == [data |-> EmptyCache, resource |-> <<>>]

\* The "Actualizar Datos" branch: st.cache_data.clear(); st.cache_resource is
\* left alone.
ManualRefresh(data, resource) == [data |-> EmptyCache, resource |-> resource]

\* A load_ga4_client that memoizes the object whether or not it has a client.
StoreClientAlways(resource, built, handle, t) == <<[handle |-> handle, created |-> t]>>

\* What st.cache_resource holds after load_ga4_client ran GA4Client(...):
\* nothing new when st.stop() left the constructor.
StoreClient(resource, built, handle, t) ==
    IF built.stop THEN resource ELSE <<[handle |-> handle, created |-> t]>>

\* The calls of get_cached_data a run makes for the selected option: the
\* if/elif chain of main.
ContentCalls(sel, start_str, end_str) ==
    LET call(dt) == [start |-> start_str, end |-> end_str, data_type |-> dt] IN
    IF sel = OptionResumen THEN <<call("basic"), call("sources")>>
    ELSE IF sel = OptionPaginas THEN <<call("pages")>>
    ELSE IF sel = OptionGeografia THEN <<call("geographic")>>
    ELSE IF sel = OptionDispositivos THEN <<call("devices")>>
    ELSE IF sel = BranchTiempoReal
         THEN <<[start |-> None, end |-> None, data_type |-> "realtime"]>>
    ELSE <<>>

NoCall == [valid |-> FALSE, key |-> <<>>, client |-> 0, by |-> 0, remote |-> FALSE,
           mode |-> "", df |-> EmptyDataFrame, errors |-> 0, raised |-> FALSE,
           wasStale |-> FALSE, refreshTab |-> "", inWindow |-> FALSE, t |-> 0]
NoLoad == [valid |-> FALSE, t |-> 0, handle |-> 0, resolved |-> FALSE, stop |-> FALSE,
           prior |-> <<>>, cleared |-> FALSE, prevStop |-> FALSE]

DashInit ==
    /\ now = 0
    /\ resourceCache = <<>>
    /\ dataCache = EmptyCache
    /\ clientCount = 0
    /\ start_date = DefaultStart
    /\ end_date = DefaultEnd
    /\ selected = Options[1]
    /\ button = FALSE
    /\ rt_button = FALSE
    /\ rt_shown = FALSE
    /\ passes = 0
    /\ pc = "sidebar"
    /\ ga4_client = 0
    /\ todo = <<>>
    /\ passLookups = <<>>
    /\ lastCall = NoCall
    /\ lastLoad = NoLoad
    /\ prevStop = FALSE
    /\ lastBuilt = <<>>
    /\ clearedSinceBuild = FALSE
    /\ hist = EmptyCache
    /\ stale = {}
    /\ refreshTab = ""

NoInput == [kind |-> "none"]
ReportIdle == input = NoInput /\ op = "" /\ output = <<>>

Init == DashInit /\ ReportIdle

\* Time passes between two runs of the script (a run is short against TickLen).
Tick ==
    /\ pc \in {"done", "stopped"}
    /\ now + TickLen <= MaxTicks * TickLen
    /\ now' = now + TickLen
    /\ lastCall' = NoCall
    /\ lastLoad' = NoLoad
    /\ UNCHANGED <<widgetVars, clientVars, hist, reportVars, dataCache, button,
                   rt_button, rt_shown, pc, ga4_client, todo, passLookups,
                   clearedSinceBuild, stale, refreshTab>>

\* What the user can do to the page between two runs.
UserInputs ==
    {<<"start", d>> : d \in StartChoices} \cup {<<"end", d>> : d \in EndChoices}
    \cup {<<"tab", i>> : i \in 1..Len(Options)} \cup {<<"refresh", 0>>}
    \cup (IF rt_shown THEN {<<"rt", 0>>} ELSE {})

\* A widget changes and Streamlit runs the script again from the top.
UserInteract ==
    /\ pc \in {"done", "stopped"}
    /\ passes < MaxPasses
    /\ \E in \in UserInputs :
        /\ start_date' = IF in[1] = "start" THEN in[2] ELSE start_date
        /\ end_date' = IF in[1] = "end" THEN in[2] ELSE end_date
        /\ selected' = IF in[1] = "tab" THEN Options[in[2]] ELSE selected
        /\ button' = (in[1] = "refresh")
        /\ rt_button' = (in[1] = "rt")
    /\ passes' = passes + 1
    /\ pc' = "sidebar"
    /\ ga4_client' = 0
    /\ todo' = <<>>
    /\ passLookups' = <<>>
    /\ lastCall' = NoCall
    /\ lastLoad' = NoLoad
    /\ UNCHANGED <<now, clientVars, hist, reportVars, dataCache, rt_shown,
                   clearedSinceBuild, stale, refreshTab>>

\* main, lines 215-233: the sidebar. A pressed "Actualizar Datos" clears the
\* data memoization and st.rerun() starts the script again.
Sidebar ==
    /\ pc = "sidebar"
    /\ IF button
       THEN LET after == ManualRefresh(dataCache, resourceCache) IN
            /\ dataCache' = after.data
            /\ resourceCache' = after.resource
            /\ button' = FALSE
            /\ pc' = "sidebar"
            /\ stale' = stale \cup DOMAIN hist
            /\ hist' = EmptyCache
            /\ refreshTab' = IF stale \cup DOMAIN hist = {} THEN "" ELSE selected
            /\ clearedSinceBuild' = TRUE
       ELSE /\ pc' = "load"
            /\ UNCHANGED <<dataCache, resourceCache, button, stale, hist, refreshTab,
                           clearedSinceBuild>>
    /\ UNCHANGED <<now, widgetVars, clientCount, lastLoad, prevStop, lastBuilt,
                   lastCall, reportVars, rt_button, rt_shown, ga4_client, todo, passLookups>>

\* main, lines 255-262, with load_ga4_client and GA4Client.__init__: the
\* memoized handle, or a new client; st.stop() ends the run. The secret store
\* and the credentials file are read here only: they are in whatever state
\* (sec, file) the environment has left them in.
LoadClient ==
    /\ pc = "load"
    /\ IF ClientFresh(resourceCache, now)
       THEN /\ ga4_client' = resourceCache[1].handle
            /\ pc' = "content"
            /\ lastLoad' = [valid |-> TRUE, t |-> now, handle |-> resourceCache[1].handle,
                            resolved |-> FALSE, stop |-> FALSE, prior |-> lastBuilt,
                            cleared |-> clearedSinceBuild,
                            prevStop |-> prevStop]
            /\ UNCHANGED <<resourceCache, clientCount, lastBuilt, clearedSinceBuild>>
       ELSE \E sec \in SecretStates, file \in FileStates :
            LET built == GA4ClientInit(sec, file, CREDENTIALS_PATH)
                handle == clientCount + 1
            IN  /\ resourceCache' = StoreClient(resourceCache, built, handle, now)
                /\ clientCount' = IF built.stop THEN clientCount ELSE handle
                /\ ga4_client' = IF built.stop THEN 0 ELSE handle
                /\ pc' = IF built.stop THEN "stopped" ELSE "content"
                /\ lastBuilt' = IF built.stop THEN lastBuilt
                                ELSE <<[handle |-> handle, created |-> now]>>
                /\ clearedSinceBuild' = IF built.stop THEN clearedSinceBuild ELSE FALSE
                /\ lastLoad' = [valid |-> TRUE, t |-> now,
                                handle |-> IF built.stop THEN 0 ELSE handle,
                                resolved |-> TRUE, stop |-> built.stop, prior |-> lastBuilt,
                                cleared |-> clearedSinceBuild,
                                prevStop |-> prevStop]
    /\ prevStop' = lastLoad'.stop
    /\ UNCHANGED <<now, widgetVars, callVars, reportVars, dataCache, button,
                   rt_button, rt_shown, todo, passLookups, stale, refreshTab>>

\* main, lines 264-431 up to the first get_cached_data: the dates as text and
\* the branch of the selected option. The last branch clears the data
\* memoization when its own button was pressed.
SelectContent ==
    /\ pc = "content"
    /\ LET start_date_str == Strftime(DateOf(start_date))
           end_date_str == Strftime(DateOf(end_date))
           calls == ContentCalls(selected, start_date_str, end_date_str)
       IN  /\ todo' = calls
           /\ pc' = IF calls = <<>> THEN "done" ELSE "fetch"
    /\ rt_shown' = (selected = BranchTiempoReal)
    /\ IF selected = BranchTiempoReal /\ rt_button
       THEN /\ dataCache' = EmptyCache
            /\ stale' = stale \cup DOMAIN hist
            /\ hist' = EmptyCache
            /\ refreshTab' = IF stale \cup DOMAIN hist = {} THEN "" ELSE selected
       ELSE UNCHANGED <<dataCache, stale, hist, refreshTab>>
    /\ lastLoad' = NoLoad
    /\ UNCHANGED <<now, widgetVars, clientVars, lastCall, reportVars,
                   button, rt_button, ga4_client, passLookups, clearedSinceBuild>>

\* The window of a key: opened by the first call for it, closed TTL seconds
\* later or by a manual refresh. n counts the remote invocations (up to 2).
InWindow(h, k, t) == k \in DOMAIN h /\ t < h[k].t0 + TTL
Observe(h, k, t, df, remote, failed) ==
    IF InWindow(h, k, t)
    THEN Put(h, k, [t0 |-> h[k].t0, first |-> h[k].first,
                    n |-> IF remote /\ h[k].n < 2 THEN h[k].n + 1 ELSE h[k].n,
                    second |-> TRUE, same |-> h[k].same /\ df = h[k].first,
                    failed |-> h[k].failed])
    ELSE Put(h, k, [t0 |-> t, first |-> df, n |-> IF remote THEN 1 ELSE 0,
                    second |-> FALSE, same |-> TRUE, failed |-> failed])

\* A memoization that keeps no table without records.
MemoizeOnlyRows(cache, key, entry) ==
    IF IsEmpty(entry.value) THEN cache ELSE Put(cache, key, entry)

\* st.cache_data keeps what the function returned, whatever it is.
MemoizeResult(cache, key, entry) == Put(cache, key, entry)

\* One call of the memoized get_cached_data: the stored table while the entry
\* is fresh, else the function body with its one remote call, whose result is
\* stored.
GetCachedData ==
    /\ pc = "fetch"
    /\ todo # <<>>
    /\ LET call == Head(todo)
           k3 == <<call.start, call.end, call.data_type>>
           key == CacheKey(ga4_client, call.start, call.end, call.data_type)
           request == CachedDataRequest(call.start, call.end, call.data_type)
           rest == Tail(todo)
       IN  /\ passLookups' = Append(passLookups, call)
           /\ stale' = stale \ {k3}
           /\ refreshTab' = IF stale \ {k3} = {} THEN "" ELSE refreshTab
           /\ IF DataFresh(dataCache, key, now)
              THEN /\ lastCall' = [valid |-> TRUE, key |-> k3, client |-> ga4_client,
                                   by |-> dataCache[key].by, remote |-> FALSE, mode |-> "",
                                   df |-> dataCache[key].value, errors |-> 0,
                                   raised |-> FALSE, wasStale |-> k3 \in stale,
                                   refreshTab |-> refreshTab,
                                   inWindow |-> InWindow(hist, k3, now), t |-> now]
                   /\ hist' = Observe(hist, k3, now, dataCache[key].value, FALSE, FALSE)
                   /\ todo' = rest
                   /\ pc' = IF rest = <<>> THEN "done" ELSE "fetch"
                   /\ UNCHANGED dataCache
              ELSE \E mode \in DashModes(request) :
                   \E r \in {CachedDataBody(call.data_type, RunReport(request, now, mode))} :
                   /\ lastCall' = [valid |-> TRUE, key |-> k3, client |-> ga4_client,
                                   by |-> ga4_client, remote |-> TRUE, mode |-> mode,
                                   df |-> r.df, errors |-> r.errors, raised |-> r.raised,
                                   wasStale |-> k3 \in stale, refreshTab |-> refreshTab,
                                   inWindow |-> InWindow(hist, k3, now), t |-> now]
                   /\ hist' = Observe(hist, k3, now, r.df, TRUE, mode = "error")
                   /\ dataCache' = IF r.raised THEN dataCache
                                   ELSE MemoizeResult(dataCache, key,
                                            [value |-> r.df, created |-> now,
                                             by |-> ga4_client, key |-> k3])
                   /\ todo' = IF r.raised THEN <<>> ELSE rest
                   /\ pc' = IF r.raised THEN "stopped"
                            ELSE IF rest = <<>> THEN "done" ELSE "fetch"
    /\ UNCHANGED <<now, widgetVars, clientVars, lastLoad, reportVars, button,
                   rt_button, rt_shown, ga4_client, clearedSinceBuild>>

Next == Tick \/ UserInteract \/ Sidebar \/ LoadClient \/ SelectContent
        \/ GetCachedData

Spec == Init /\ [][Next]_vars

dashVars == <<now, resourceCache, dataCache, clientCount, start_date, end_date, selected,
              button, rt_button, rt_shown, passes, pc, ga4_client, todo, passLookups,
              lastCall, lastLoad, prevStop, lastBuilt, clearedSinceBuild, hist, stale,
              refreshTab>>

\* ------------------------------------------------- GA4Client on its own
\* The operations of GA4Client applied once to an input drawn from bounded
\* sets: the outcome of a remote call, or the state of the credential sources.
DimNames == <<"date", "country">>
MetNames == <<"sessions", "date">>
DimValues == {CompactDate(DateOf(TodayOrdinal - 1)), CompactDate(DateOf(TodayOrdinal)),
              OtherText, <<"N", "a", "T">>}
MetValues == {<<"4", "2">>, <<"1", "2", ".", "5">>, <<"a", "b", "c">>}

\* The header sequences over a pool of names, no longer than the pool.
HeaderSeqs(pool) ==
    UNION {[1..len -> {pool[i] : i \in 1..Len(pool)}] : len \in 0..Len(pool)}

\* A row that repeats one dimension value and one metric value; a short row
\* lacks its last metric value.
RawRow(dv, mv, d, m, short) ==
    [dimension_values |-> [i \in 1..d |-> dv],
     metric_values |-> [i \in 1..(IF short /\ m > 0 THEN m - 1 ELSE m) |-> mv]]

RawResponses ==
    {[dimension_headers |-> dh, metric_headers |-> mh,
      rows |-> [r \in 1..Len(vals) |->
                  RawRow(vals[r][1], vals[r][2], Len(dh), Len(mh), short /\ r = Len(vals))]] :
        dh \in HeaderSeqs(DimNames), mh \in HeaderSeqs(MetNames),
        short \in BOOLEAN,
        vals \in UNION {[1..k -> DimValues \X MetValues] : k \in 0..MaxRows}}

UnitInputs ==
    {[kind |-> "remote", raises |-> FALSE, response |-> resp] :
        resp \in RawResponses}
    \cup {[kind |-> "remote", raises |-> TRUE, response |-> [nothing |-> TRUE]],
          [kind |-> "remote", raises |-> FALSE, response |-> [nothing |-> TRUE]]}
    \cup {[kind |-> "env", sec |-> s, file |-> f] : s \in SecretStates, f \in FileStates}

UnitInit ==
    /\ DashInit
    /\ input \in UnitInputs
    /\ op = ""
    /\ output = <<>>

CallNormalize ==
    /\ op = "" /\ input.kind = "remote" /\ ~input.raises
    /\ op' = "_response_to_dataframe"
    /\ output' = ResponseToDataFrame(input.response)
    /\ UNCHANGED <<input, dashVars>>

CallBasicReport ==
    /\ op = "" /\ input.kind = "remote"
    /\ op' = "get_basic_report"
    /\ output' = GetBasicReport(input)
    /\ UNCHANGED <<input, dashVars>>

CallRealtimeReport ==
    /\ op = "" /\ input.kind = "remote"
    /\ op' = "get_realtime_report"
    /\ output' = GetRealtimeReport(input)
    /\ UNCHANGED <<input, dashVars>>

CallNewClient ==
    /\ op = "" /\ input.kind = "env"
    /\ op' = "GA4Client"
    /\ output' = GA4ClientInit(input.sec, input.file, CREDENTIALS_PATH)
    /\ UNCHANGED <<input, dashVars>>

NextClient == CallNormalize \/ CallBasicReport \/ CallRealtimeReport \/ CallNewClient

SpecClient == UnitInit /\ [][NextClient]_vars

\* ================================================================ claims
Yesterday == Strftime(DateOf(Today - 1))

\* The data types a tab of the selector is to look up, in order.
TabKinds(tab) ==
    IF tab = OptionResumen THEN <<"basic", "sources">>
    ELSE IF tab = OptionPaginas THEN <<"pages">>
    ELSE IF tab = OptionGeografia THEN <<"geographic">>
    ELSE IF tab = OptionDispositivos THEN <<"devices">>
    ELSE IF tab = OptionTiempoReal THEN <<"realtime">>
    ELSE <<>>
KindsOf(tab) == {TabKinds(tab)[i] : i \in 1..Len(TabKinds(tab))}

\* C1: while the window of a key (start, end, kind) is open, that is from the
\* first call for it until 300 seconds later with no manual refresh, the calls
\* for the key have caused exactly one remote invocation and each has
\* returned the table the first call returned.
C1_OneFetchPerWindow ==
    \A k \in DOMAIN hist : hist[k].n = 1 /\ hist[k].same

\* C1 witness: a second call inside the window of a key whose table has rows.
C1_Witness ==
    /\ lastCall.valid
    /\ ~lastCall.remote
    /\ lastCall.key \in DOMAIN hist
    /\ hist[lastCall.key].second
    /\ ~IsEmpty(hist[lastCall.key].first)
    /\ lastCall.df = hist[lastCall.key].first

\* C2: after a manual refresh no key cached before it has an entry, whatever
\* its tab, and the next call for such a key invokes the remote service.
C2_RefreshEmptiesDataCache ==
    /\ \A k \in stale : \A x \in DOMAIN dataCache : dataCache[x].key # k
    /\ lastCall.valid /\ lastCall.wasStale => lastCall.remote

\* C2 witness: a key of another tab than the one selected at the refresh is
\* asked for after the refresh and fetched again.
C2_Witness ==
    /\ lastCall.valid
    /\ lastCall.wasStale
    /\ lastCall.remote
    /\ lastCall.refreshTab # ""
    /\ lastCall.key[3] \notin KindsOf(lastCall.refreshTab)

\* C3: when the remote call of get_basic_report or get_realtime_report
\* raises, the method returns a table without records, lets no exception out
\* and shows exactly one error message.
C3_FailSoft ==
    (op \in {"get_basic_report", "get_realtime_report"} /\ input.raises)
        => /\ ~output.raised
           /\ Len(output.df.records) = 0
           /\ output.errors = 1

\* C3 witness: get_realtime_report has run on a remote call that raised.
C3_Witness ==
    op = "get_realtime_report" /\ input.raises /\ output.errors = 1

\* C4 as claimed: the client handle is part of the key, so a table is only
\* served to a call made with the handle that fetched it.
C4_KeyedByClient ==
    (lastCall.valid /\ ~lastCall.remote) => lastCall.by = lastCall.client

\* C4 as amended: the key is (start, end, kind) alone. A call is served from
\* the memoization exactly when the window of its (start, end, kind) is open,
\* whichever client handle it is made with; a call that differs in start, end
\* or kind from every open window invokes the remote service.
C4_KeyedByDatesAndKind ==
    lastCall.valid => (lastCall.remote <=> ~lastCall.inWindow)

\* C4 witness: a call made with a second client handle is served the table a
\* call with the first handle fetched.
C4_Witness ==
    /\ lastCall.valid
    /\ ~lastCall.remote
    /\ lastCall.inWindow
    /\ lastCall.by # lastCall.client

\* C5: the end date of every standard-mode lookup of a run is yesterday or
\* earlier.
C5_EndNotAfterYesterday ==
    \A i \in 1..Len(passLookups) :
        passLookups[i].data_type # "realtime" => TextLeq(passLookups[i].end, Yesterday)

\* C6: a run that completes with the client handle has looked up the data
\* types of the selected tab, in order, the realtime one with no date range.
C6_TabLookups ==
    pc = "done" =>
        /\ Len(passLookups) = Len(TabKinds(selected))
        /\ \A i \in 1..Len(passLookups) :
            /\ passLookups[i].data_type = TabKinds(selected)[i]
            /\ passLookups[i].data_type = "realtime"
                   => passLookups[i].start = None /\ passLookups[i].end = None

\* C7: a load_ga4_client call less than 300 seconds after the latest client
\* was built returns that client without resolving credentials again, manual
\* refreshes notwithstanding; a call with no such client resolves them.
C7_ClientMemoized ==
    lastLoad.valid =>
        IF lastLoad.prior # <<>> /\ lastLoad.t < lastLoad.prior[1].created + TTL
        THEN ~lastLoad.resolved /\ lastLoad.handle = lastLoad.prior[1].handle
        ELSE lastLoad.resolved

\* C7 witness: the memoized client is returned after a manual refresh.
C7_Witness ==
    /\ lastLoad.valid
    /\ ~lastLoad.resolved
    /\ lastLoad.cleared
    /\ lastLoad.handle = lastLoad.prior[1].handle

\* C8: a credential failure ends the run with no lookup made and no handle
\* memoized, and the load_ga4_client call after a failed one resolves the
\* credentials again.
C8_CredentialFailureHalts ==
    /\ pc = "stopped" => passLookups = <<>> /\ todo = <<>> /\ ga4_client = 0
    /\ lastLoad.valid /\ lastLoad.stop =>
        /\ pc = "stopped"
        /\ resourceCache = <<>> \/ now >= resourceCache[1].created + TTL
    /\ lastLoad.valid /\ lastLoad.prevStop => lastLoad.resolved

\* C8 witness: the run after a failed one resolves the credentials again and
\* gets a client.
C8_Witness ==
    lastLoad.valid /\ lastLoad.prevStop /\ lastLoad.resolved /\ ~lastLoad.stop

\* C9: with a 'ga4' section the client is built from the secret record and
\* only a valid one gives a client; without it the file is used if it
\* exists; with neither the resolution fails.
C9_ResolutionOrder ==
    op = "GA4Client" =>
        /\ input.sec # "absent" =>
            /\ output.source = "secrets"
            /\ output.builder # "from_service_account_json"
            /\ ~output.stop <=> input.sec = "valid"
        /\ input.sec = "absent" /\ input.file # "absent" =>
            /\ output.source = "file"
            /\ output.builder = "from_service_account_json"
            /\ ~output.stop <=> input.file = "valid"
        /\ input.sec = "absent" /\ input.file = "absent" =>
            /\ output.stop
            /\ output.source = "none"

\* C9 witness: both sources are there and usable, the secret record is used.
C9_Witness ==
    /\ op = "GA4Client"
    /\ input.sec = "valid"
    /\ input.file = "valid"
    /\ output.builder = "from_service_account_info"
    /\ ~output.stop

\* A raw response is well formed: header names pairwise distinct, every row
\* with one value per header, every value under a 'date' header a compact date.
Distinct(seq) == \A i, j \in 1..Len(seq) : i # j => seq[i] # seq[j]
WellFormed(resp) ==
    /\ {"rows", "dimension_headers", "metric_headers"} \subseteq DOMAIN resp
    /\ Distinct(resp.dimension_headers \o resp.metric_headers)
    /\ \A r \in 1..Len(resp.rows) :
        /\ Len(resp.rows[r].dimension_values) = Len(resp.dimension_headers)
        /\ Len(resp.rows[r].metric_values) = Len(resp.metric_headers)
        /\ \A i \in 1..Len(resp.dimension_headers) :
            resp.dimension_headers[i] = "date" => IsCompactDate(resp.rows[r].dimension_values[i])
        /\ \A i \in 1..Len(resp.metric_headers) :
            resp.metric_headers[i] = "date" => IsCompactDate(resp.rows[r].metric_values[i])

\* C10: of a well-formed response with N >= 1 rows, D dimension headers and M
\* metric headers the normalizer makes N records in the order of the rows,
\* each of D + M cells, under the columns: the dimension headers, then the
\* metric headers.
C10_NormalizeShape ==
    (op = "_response_to_dataframe" /\ WellFormed(input.response)
        /\ Len(input.response.rows) >= 1) =>
        LET resp == input.response
            D == Len(resp.dimension_headers)
        IN  /\ ~output.raised
            /\ Len(output.df.records) = Len(resp.rows)
            /\ output.df.columns = resp.dimension_headers \o resp.metric_headers
            /\ \A r \in 1..Len(resp.rows) :
                /\ Len(output.df.records[r]) = D + Len(resp.metric_headers)
                /\ \A i \in 1..D :
                    resp.dimension_headers[i] # "date"
                        => output.df.records[r][i] = StrCell(resp.rows[r].dimension_values[i])

\* C10 witness: two different rows under two dimensions and one metric.
C10_Witness ==
    /\ op = "_response_to_dataframe"
    /\ WellFormed(input.response)
    /\ Len(input.response.rows) = 2
    /\ input.response.rows[1] # input.response.rows[2]
    /\ Len(input.response.dimension_headers) = 2
    /\ Len(input.response.metric_headers) = 1
    /\ Len(output.df.records) = 2

\* C11: in the table made of a well-formed response every metric value is a
\* float if its text has a decimal point and parses as one, an integer if its
\* text has no decimal point and parses as one, and the text itself
\* otherwise; no error leaves the normalizer and the dimension values of the
\* row are the texts received.
C11_MetricCoercion ==
    (op = "_response_to_dataframe" /\ WellFormed(input.response)
        /\ Len(input.response.rows) >= 1) =>
        LET resp == input.response
            D == Len(resp.dimension_headers)
        IN  /\ ~output.raised
            /\ \A r \in 1..Len(resp.rows) :
                /\ \A i \in 1..Len(resp.metric_headers) :
                    LET value == resp.rows[r].metric_values[i]
                        cell == output.df.records[r][D + i]
                    IN  IF Contains(value, ".") /\ IsFloatLiteral(value)
                        THEN cell = FloatValue(value)
                        ELSE IF ~Contains(value, ".") /\ IsIntLiteral(value)
                        THEN cell = IntCell(IntValue(value))
                        ELSE cell = StrCell(value)
                /\ \A i \in 1..D :
                    resp.dimension_headers[i] # "date"
                        => output.df.records[r][i] = StrCell(resp.rows[r].dimension_values[i])

\* C12: a get_cached_data call whose remote call failed leaves a table
\* without records stored under its key; while the window of that key is
\* open (300 seconds from the failed call, no manual refresh) every call for
\* the key returns that table and the remote service has been invoked once,
\* by the failed call alone.
C12_FailedFetchMemoized ==
    /\ (lastCall.valid /\ lastCall.remote /\ lastCall.mode = "error") =>
        \E x \in DOMAIN dataCache :
            /\ dataCache[x].key = lastCall.key
            /\ dataCache[x].created = lastCall.t
            /\ Len(dataCache[x].value.records) = 0
    /\ \A k \in DOMAIN hist :
        hist[k].failed =>
            /\ Len(hist[k].first.records) = 0
            /\ hist[k].n = 1
            /\ hist[k].same

\* C12 witness: a call made later than the failed one, inside its window, is
\* served the table without records and invokes nothing.
C12_Witness ==
    /\ lastCall.valid
    /\ ~lastCall.remote
    /\ lastCall.key \in DOMAIN hist
    /\ hist[lastCall.key].failed
    /\ hist[lastCall.key].second
    /\ lastCall.t > hist[lastCall.key].t0
    /\ lastCall.t < hist[lastCall.key].t0 + TTL
    /\ Len(lastCall.df.records) = 0

\* A raw response with pairwise distinct header names and one value per
\* header in every row.
WellShaped(resp) ==
    /\ {"rows", "dimension_headers", "metric_headers"} \subseteq DOMAIN resp
    /\ Distinct(resp.dimension_headers \o resp.metric_headers)
    /\ \A r \in 1..Len(resp.rows) :
        /\ Len(resp.rows[r].dimension_values) = Len(resp.dimension_headers)
        /\ Len(resp.rows[r].metric_values) = Len(resp.metric_headers)

\* The texts a response holds under a header named 'date'.
DateTexts(resp) ==
    {resp.rows[r].dimension_values[i] :
        r \in 1..Len(resp.rows),
        i \in {j \in 1..Len(resp.dimension_headers) : resp.dimension_headers[j] = "date"}}
    \cup
    {resp.rows[r].metric_values[i] :
        r \in 1..Len(resp.rows),
        i \in {j \in 1..Len(resp.metric_headers) : resp.metric_headers[j] = "date"}}

\* C13 as claimed: when a value under 'date' is not a valid compact YYYYMMDD
\* date, get_basic_report returns a table without records, shows one error
\* message and lets no exception out.
C13_BadDateFailsFetch ==
    (op = "get_basic_report" /\ ~input.raises /\ WellShaped(input.response)
        /\ \E v \in DateTexts(input.response) : ~IsCompactDate(v)) =>
        /\ ~output.raised
        /\ output.df = EmptyDataFrame
        /\ output.errors = 1

\* C13 as amended: when a value under 'date' is one the date conversion
\* rejects, that is neither a valid compact YYYYMMDD date nor a text read as a
\* missing value ('NaT', 'nan'), get_basic_report returns a table without
\* records or columns, shows one error message and lets no exception out.
\* When every value under a 'date' dimension is a valid compact date or such
\* a text, all rows are returned with no error. A table that is returned
\* holds a date or a missing date in every cell of its 'date' column, never
\* the text received.
C13_RejectedDateFailsFetch ==
    op = "get_basic_report" /\ ~input.raises /\ WellShaped(input.response) =>
        LET resp == input.response IN
        /\ (\E v \in DateTexts(resp) : ~IsCompactDate(v) /\ v \notin NatStrings) =>
            /\ ~output.raised
            /\ output.df = EmptyDataFrame
            /\ output.errors = 1
        /\ (/\ Contains(resp.dimension_headers, "date")
            /\ \A v \in DateTexts(resp) : IsCompactDate(v) \/ v \in NatStrings) =>
            /\ ~output.raised
            /\ output.errors = 0
            /\ Len(output.df.records) = Len(resp.rows)
        /\ \A r \in 1..Len(output.df.records) : \A c \in 1..Len(output.df.columns) :
            output.df.columns[c] = "date" => output.df.records[r][c].t \in {"date", "nan"}

\* C13 witness: of two rows the first has a valid date and the second a text
\* that is no date; get_basic_report returns no record and shows one error.
C13_Witness ==
    /\ op = "get_basic_report"
    /\ ~input.raises
    /\ WellShaped(input.response)
    /\ input.response.dimension_headers = <<"date">>
    /\ Len(input.response.rows) = 2
    /\ IsCompactDate(input.response.rows[1].dimension_values[1])
    /\ input.response.rows[2].dimension_values[1] = OtherText
    /\ output.df = EmptyDataFrame
    /\ output.errors = 1

====
